---- MODULE Spec2Model ----
(***************************************************************************)
(* Model of the SRF cavity auto-setup sequencer: SetupCavity.setup(),      *)
(* SetupCavity.shut_down(), request_stop() and check_abort() of            *)
(* setup_linac.py.  One cavity, driven by a small number of callers        *)
(* (threads or processes that were triggered to run setup()/shut_down()    *)
(* on that cavity) and by an operator who may request a stop at any time.  *)
(*                                                                         *)
(* Every call into the device layer is a blocking operation: a caller sits *)
(* at the corresponding pc value while it is in progress, and the call     *)
(* either returns or raises.  A step of a caller is the code from one      *)
(* device-layer call or check_abort() to the next.                         *)
(*                                                                         *)
(* Spec takes the already-running check and the write of RUNNING as one    *)
(* step (the single-writer convention the design relies on); SpecRace      *)
(* takes them as the two control-point accesses they are.                  *)
(*                                                                         *)
(* The setup GUI of setup_gui.py is modelled next to it: the abort buttons *)
(* and workers (SpecGUI, SpecKillRace) and the amplitude spinboxes of a    *)
(* cryomodule (SpecAlloc).  Each specification moves its own variables and *)
(* holds the others at rest.                                               *)
(***************************************************************************)
EXTENDS Integers, Sequences, FiniteSets, TLC

(* ---------------------------------------------------------------- bounds *)

\* number of callers that can be triggered against the one cavity
NumCallers == 2

Callers == 1..NumCallers

\* number of cavities of a cryomodule followed in the abort fan-out of the
\* GUI (the program builds 8 per cryomodule)
FanOut == 2

\* the cryomodules of the linac followed in the abort fan-out
CryomoduleNames == <<"02", "03">>

\* the cavities of the fan-out: <<index of the cryomodule, cavity number>>
Kids == (1..Len(CryomoduleNames)) \X (1..FanOut)

\* the cavities of one cryomodule, for the amplitude spinboxes
NumCavities == 8

Cavities == 1..NumCavities

\* the RF modes a cavity is found in
RfModes == { "SEL", "SELA", "SELAP" }

\* amplitudes, in MV, a cavity is found at or asked to reach
Amps == { 0, 3, 8, 16 }

\* values of the cavities' ADES_MAX, in hundredths of MV
Maxima == { 100, 300, 500 }

\* values of a cryomodule's ADES_MAX, which the control system supplies: the
\* GUI reads it and derives it from nothing
CmMaxima == { 2000, 4000 }

\* the maxima of the 8 cavities when the GUI is built: set_cavity_amps() does
\* not depend on which cavity has which maximum, so they are taken in
\* nondecreasing order of the cavity number
Profiles ==
    { f \in [Cavities -> Maxima] :
        \A c \in Cavities : c < NumCavities => f[c] <= f[c + 1] }

\* number of times an ADES_MAX changes while the GUI runs
MaxChanges == 2

\* values an operator enters in the cryomodule's spinbox, in hundredths of MV
Targets == { 0, 1600, 2000, 4000 }

(* ------------------------------------------------------- program constants *)

STATUS_READY_VALUE == 0
STATUS_RUNNING_VALUE == 1
STATUS_ERROR_VALUE == 2

\* the exception types of the except clause of setup()
DeclaredFaults ==
    { "StepperError", "DetuneError", "SSACalibrationError", "PVInvalidError",
      "QuenchError", "CavityQLoadedCalibrationError",
      "CavityScaleFactorCalibrationError", "SSAFaultError",
      "StepperAbortError", "CavityHWModeError", "CavityFaultError",
      "CavityAbortError" }

\* the exception check_abort() raises
CavityAbortError == [type |-> "CavityAbortError", text |-> "Abort requested"]

\* an exception of a kind the except clause of setup() does not name
UndeclaredFaults ==
    { [type |-> "ValueError", text |-> "unexpected value"] }

\* the exceptions a device-layer call raises in this model: two of the
\* declared kinds, each carrying its own description
RaisedFaults ==
    { [type |-> "SSAFaultError", text |-> "SSA faulted"],
      [type |-> "DetuneError", text |-> "Detune too large"] }

\* target amplitudes (acon) the cavity is configured with
TargetAmps == {0, 8}

\* str(e)
Str(e) == e.text

NoMsg == "<none>"
NoAct == "<none>"

(* ------------------------------------------------------------------ state *)

VARIABLES
    status,              \* AUTO:STATUS control point
    progress,            \* AUTO:PROG control point
    status_message,      \* AUTO:MSG control point
    setup_stop,          \* AUTO:SETUPSTOP control point, the abort token
    ssa_cal_requested,   \* AUTO:SETUP_SSAREQ
    auto_tune_requested, \* AUTO:SETUP_TUNEREQ
    cav_char_requested,  \* AUTO:SETUP_CHARREQ
    rf_ramp_requested,   \* AUTO:SETUP_RAMPREQ
    acon,                \* the cavity's target amplitude
    pc,                  \* per caller: where it is in setup()/shut_down()
    res,                 \* per caller: how its last call ended
    log,                 \* per caller: device-layer calls started by its call
    pub,                 \* per caller: progress values published by its call
    said,                \* per caller: status messages published by its call
    stale,               \* the token was already set when the run in flight
                         \* entered RUNNING, and nobody has set it since
    reqStage             \* per caller: stage of the device operation it was
                         \* in when a stop was requested (0: none pending)

requests == <<ssa_cal_requested, auto_tune_requested, cav_char_requested,
              rf_ramp_requested, acon>>
points == <<status, progress, status_message, setup_stop>>
hist == <<res, log, pub, said, stale, reqStage>>
linacVars == <<status, progress, status_message, setup_stop, ssa_cal_requested,
               auto_tune_requested, cav_char_requested, rf_ramp_requested, acon,
               pc, res, log, pub, said, stale, reqStage>>

\* the setup GUI (setup_gui.py): abort tokens, workers and the GUI thread
VARIABLES
    abort_flag,          \* per cavity: Cavity.abort_flag
    tuner_abort_flag,    \* per cavity: Cavity.steppertuner.abort_flag
    worker,              \* per cavity: state of its SetupWorker
    gui,                 \* what the GUI thread is executing
    kills,               \* per cavity: kill_workers() calls made on it by the
                         \* group abort in progress or last completed
    since,               \* per cavity: a kill_workers() taken one assignment
                         \* at a time began on it after its last worker ended
    off_worker,          \* per cavity: an OffWorker of it is running
    issued               \* the children the group launch in progress or last
                         \* completed has handed a worker to, in order

launchVars == <<off_worker, issued>>

guiVars == <<abort_flag, tuner_abort_flag, worker, gui, kills, since, launchVars>>

\* the amplitude spinboxes of one cryomodule of the GUI, in hundredths of MV
\* (a QDoubleSpinBox holds two decimals)
VARIABLES
    amax,                \* per cavity: ADES_MAX, also the spinbox's range
    spin,                \* per cavity: GUICavity.spinbox.value()
    cm_spin,             \* GUICryomodule.spinbox.value(), the target
    cm_max,              \* the range of GUICryomodule.spinbox: the cryomodule's
                         \* ADES_MAX as update_max_amp() last read it
    last,                \* how the last set_cavity_amps() since the target
                         \* or a maximum changed ended ("none": no call yet)
    again,               \* the last set_cavity_amps() repeated a call with
                         \* the same target and maxima
    changes              \* number of changes of an ADES_MAX so far

allocVars == <<amax, spin, cm_spin, cm_max, last, again, changes>>

\* the RF state of one cavity and the SetupWorker that ramps it
VARIABLES
    is_on,               \* RF is on
    rf_mode,             \* the RF mode control point
    ades,                \* the amplitude setpoint, in MV
    des_amp,             \* SetupWorker.desAmp, in MV
    rpc,                 \* where the worker is in its rf_ramp block
    was                  \* the RF state when the worker entered the block

rampVars == <<is_on, rf_mode, ades, des_amp, rpc, was>>

vars == <<linacVars, guiVars, allocVars, rampVars>>

NoFault == [type |-> "none", text |-> ""]

NoRes == [outcome |-> "none", fault |-> NoFault, chk |-> 0, stale |-> FALSE]

\* pc values at which a blocking device-layer call of setup() is in progress
SetupOps ==
    { "s_ssa_on", "s_reset", "s_cal_off", "s_cal", "s_tune", "s_char",
      "s_probeq", "s_piezo", "s_rf_on", "s_sela", "s_walk", "s_center",
      "s_selap" }

\* pc values at which setup() is about to evaluate check_abort()
SetupChecks == { "s_chk1", "s_chk2", "s_chk3", "s_chk4" }

\* pc values right after a check_abort() that found nothing
SetupPosts == { "s_post1", "s_post2", "s_post3", "s_post4" }

\* pc values at which a blocking device-layer call of shut_down() is in progress
OffOps == { "o_rf_off", "o_ssa_off" }

\* a sequence is in flight: it passed its already-running check and has
\* not finished
InFlight(p) ==
    pc[p] \in SetupOps \cup SetupChecks \cup SetupPosts \cup OffOps
              \cup { "s_enter", "o_enter" }

\* a sequence has written RUNNING and is executing its pipeline
Executing(p) ==
    pc[p] \in SetupOps \cup SetupChecks \cup SetupPosts \cup OffOps

\* the stage (row of the stage table) a device-layer call of setup() belongs to
StageOf(at) ==
    CASE at = "s_ssa_on" -> 1
      [] at = "s_reset" -> 2
      [] at \in { "s_cal_off", "s_cal" } -> 3
      [] at = "s_tune" -> 4
      [] at \in { "s_char", "s_probeq" } -> 5
      [] at \in { "s_piezo", "s_rf_on", "s_sela", "s_walk", "s_center",
                  "s_selap" } -> 6
      [] OTHER -> 0

\* the number of the checkpoint evaluated at a pc value
ChkOf(at) ==
    CASE at = "s_chk1" -> 1
      [] at = "s_chk2" -> 2
      [] at = "s_chk3" -> 3
      [] at = "s_chk4" -> 4
      [] OTHER -> 0

TypeOK ==
    /\ status \in { STATUS_READY_VALUE, STATUS_RUNNING_VALUE, STATUS_ERROR_VALUE }
    /\ progress \in 0..100
    /\ setup_stop \in BOOLEAN
    /\ acon \in TargetAmps

(* ------------------------------------------------------------------- init *)

LinacInit ==
    /\ status = STATUS_READY_VALUE
    /\ progress = 0
    /\ status_message = NoMsg
    /\ setup_stop = FALSE
    /\ ssa_cal_requested \in BOOLEAN
    /\ auto_tune_requested \in BOOLEAN
    /\ cav_char_requested \in BOOLEAN
    /\ rf_ramp_requested \in BOOLEAN
    /\ acon \in TargetAmps
    /\ pc = [p \in Callers |-> "idle"]
    /\ res = [p \in Callers |-> NoRes]
    /\ log = [p \in Callers |-> <<>>]
    /\ pub = [p \in Callers |-> <<>>]
    /\ said = [p \in Callers |-> <<>>]
    /\ stale = FALSE
    /\ reqStage = [p \in Callers |-> 0]

\* the GUI with no worker, no abort requested and the GUI thread idle
GuiIdle == [at |-> "idle", cm |-> 0, cav |-> 0, did |-> "none"]

GuiRest ==
    /\ abort_flag = [c \in Kids |-> FALSE]
    /\ tuner_abort_flag = [c \in Kids |-> FALSE]
    /\ worker = [c \in Kids |-> "ready"]
    /\ gui = GuiIdle
    /\ kills = [c \in Kids |-> 0]
    /\ since = [c \in Kids |-> FALSE]
    /\ off_worker = [c \in Kids |-> FALSE]
    /\ issued = <<>>

\* the spinboxes as constructed, every maximum above the initial value 5
AllocRest ==
    /\ amax = [c \in Cavities |-> 500]
    /\ spin = [c \in Cavities |-> 500]
    /\ cm_spin = 4000
    /\ cm_max = 4000
    /\ last = "none"
    /\ again = FALSE
    /\ changes = 0

\* the sequencer at rest, every stage enabled
LinacRest ==
    /\ status = STATUS_READY_VALUE
    /\ progress = 0
    /\ status_message = NoMsg
    /\ setup_stop = FALSE
    /\ ssa_cal_requested = TRUE
    /\ auto_tune_requested = TRUE
    /\ cav_char_requested = TRUE
    /\ rf_ramp_requested = TRUE
    /\ acon = 8
    /\ pc = [p \in Callers |-> "idle"]
    /\ res = [p \in Callers |-> NoRes]
    /\ log = [p \in Callers |-> <<>>]
    /\ pub = [p \in Callers |-> <<>>]
    /\ said = [p \in Callers |-> <<>>]
    /\ stale = FALSE
    /\ reqStage = [p \in Callers |-> 0]

\* a cavity that is off, and no worker ramping it
RampRest ==
    /\ is_on = FALSE
    /\ rf_mode = "SELAP"
    /\ ades = 0
    /\ des_amp = 5
    /\ rpc = "idle"
    /\ was = [on |-> FALSE, mode |-> "SELAP", ades |-> 0]

Init == LinacInit /\ GuiRest /\ AllocRest /\ RampRest

(* ---------------------------------------------------------------- helpers *)

\* no call is in the middle of returning: a call that has ended returns to
\* its caller before anything else happens
Quiet == \A q \in Callers : pc[q] # "done"

\* one uninterrupted piece of a sequence run by caller p: it publishes the
\* progress values progs in order, then possibly one status message m, starts
\* the device-layer call act (if any) and moves to pc value to
Step(p, progs, m, act, to) ==
    /\ pc' = [pc EXCEPT ![p] = to]
    /\ progress' = IF Len(progs) = 0 THEN progress ELSE progs[Len(progs)]
    /\ pub' = [pub EXCEPT ![p] = @ \o progs]
    /\ status_message' = IF m = NoMsg THEN status_message ELSE m
    /\ said' = [said EXCEPT ![p] = IF m = NoMsg THEN @ ELSE Append(@, m)]
    /\ log' = [log EXCEPT ![p] = IF act = NoAct THEN @ ELSE Append(@, act)]

\* clear_setup_stop(): the token's control point is written 0
ClearSetupStop ==
    /\ setup_stop' = FALSE
    /\ stale' = FALSE
    /\ reqStage' = [q \in Callers |-> 0]

\* the except clause without its clear_setup_stop()
Except_NoClear(p, e, how, k) ==
    /\ status' = STATUS_ERROR_VALUE
    /\ status_message' = Str(e)
    /\ said' = [said EXCEPT ![p] = Append(@, Str(e))]
    /\ pc' = [pc EXCEPT ![p] = "done"]
    /\ res' = [res EXCEPT ![p] = [outcome |-> how, fault |-> e,
                                  chk |-> k, stale |-> stale]]
    /\ UNCHANGED <<progress, log, pub, requests, setup_stop, stale, reqStage>>

\* an except clause that catches every exception
Except_CatchAll(p, e, how, k) ==
    /\ status' = STATUS_ERROR_VALUE
    /\ ClearSetupStop
    /\ status_message' = Str(e)
    /\ said' = [said EXCEPT ![p] = Append(@, Str(e))]
    /\ pc' = [pc EXCEPT ![p] = "done"]
    /\ res' = [res EXCEPT ![p] = [outcome |-> how, fault |-> e,
                                  chk |-> k, stale |-> stale]]
    /\ UNCHANGED <<progress, log, pub, requests>>

\* the except clause of setup(): a declared exception e ends the run in ERROR;
\* any other exception leaves setup() through the caller
Except(p, e, how, k) ==
    IF e.type \in DeclaredFaults
    THEN /\ status' = STATUS_ERROR_VALUE
         /\ ClearSetupStop
         /\ status_message' = Str(e)
         /\ said' = [said EXCEPT ![p] = Append(@, Str(e))]
         /\ pc' = [pc EXCEPT ![p] = "done"]
         /\ res' = [res EXCEPT ![p] = [outcome |-> how, fault |-> e,
                                       chk |-> k, stale |-> stale]]
         /\ UNCHANGED <<progress, log, pub, requests>>
    ELSE /\ pc' = [pc EXCEPT ![p] = "done"]
         /\ res' = [res EXCEPT ![p] = [outcome |-> "escaped", fault |-> e,
                                       chk |-> k, stale |-> stale]]
         /\ UNCHANGED <<points, log, pub, said, stale, reqStage, requests>>

\* the end of a sequence without its write of READY
Finish_NoReady(p, m) ==
    /\ Step(p, <<100>>, m, NoAct, "done")
    /\ res' = [res EXCEPT ![p] = [NoRes EXCEPT !.outcome = "ok"]]
    /\ UNCHANGED <<status, setup_stop, stale, reqStage, requests>>

\* the last two statements of setup() and of shut_down()
Finish(p, m) ==
    /\ Step(p, <<100>>, m, NoAct, "done")
    /\ status' = STATUS_READY_VALUE
    /\ res' = [res EXCEPT ![p] = [NoRes EXCEPT !.outcome = "ok"]]
    /\ UNCHANGED <<setup_stop, stale, reqStage, requests>>

\* a piece of a run that neither ends it nor touches status or the token
Go(p, progs, m, act, to) ==
    /\ Step(p, progs, m, act, to)
    /\ UNCHANGED <<status, setup_stop, res, stale, reqStage, requests>>

(* ------------------------------------------------------------ the callers *)

\* trigger_setup(): a caller is made to run setup()
TriggerSetup(p) ==
    /\ Quiet
    /\ UNCHANGED <<guiVars, allocVars, rampVars>>
    /\ pc[p] = "idle"
    /\ pc' = [pc EXCEPT ![p] = "s_call"]
    /\ UNCHANGED <<points, requests, hist>>

\* trigger_shut_down(): a caller is made to run shut_down()
TriggerShutDown(p) ==
    /\ Quiet
    /\ UNCHANGED <<guiVars, allocVars, rampVars>>
    /\ pc[p] = "idle"
    /\ pc' = [pc EXCEPT ![p] = "o_call"]
    /\ UNCHANGED <<points, requests, hist>>

\* the call has returned (or its exception has left it); the caller is free
Return(p) ==
    /\ pc[p] = "done"
    /\ UNCHANGED <<guiVars, allocVars, rampVars>>
    /\ pc' = [pc EXCEPT ![p] = "idle"]
    /\ res' = [res EXCEPT ![p] = NoRes]
    /\ log' = [log EXCEPT ![p] = <<>>]
    /\ pub' = [pub EXCEPT ![p] = <<>>]
    /\ said' = [said EXCEPT ![p] = <<>>]
    /\ reqStage' = [reqStage EXCEPT ![p] = 0]
    /\ UNCHANGED <<points, requests, stale>>

\* the stage-enable control points are written while no call is pending
SetRequests ==
    /\ Quiet
    /\ UNCHANGED <<guiVars, allocVars, rampVars>>
    /\ \A p \in Callers : pc[p] = "idle"
    /\ \E f \in 1..4 :
          /\ ssa_cal_requested' = IF f = 1 THEN ~ssa_cal_requested ELSE ssa_cal_requested
          /\ auto_tune_requested' = IF f = 2 THEN ~auto_tune_requested ELSE auto_tune_requested
          /\ cav_char_requested' = IF f = 3 THEN ~cav_char_requested ELSE cav_char_requested
          /\ rf_ramp_requested' = IF f = 4 THEN ~rf_ramp_requested ELSE rf_ramp_requested
    /\ UNCHANGED <<points, acon, pc, hist>>

(* ----------------------------------------------------------- request_stop *)

RequestStop ==
    /\ Quiet
    /\ UNCHANGED <<guiVars, allocVars, rampVars>>
    /\ IF status = STATUS_RUNNING_VALUE
       THEN /\ status_message' = "Requesting stop"
            /\ setup_stop' = TRUE
            /\ stale' = FALSE
            /\ reqStage' = [q \in Callers |->
                              IF reqStage[q] = 0 /\ pc[q] \in SetupOps
                              THEN StageOf(pc[q]) ELSE reqStage[q]]
       ELSE /\ status_message' = "script not running, no abort needed"
            /\ UNCHANGED <<setup_stop, stale, reqStage>>
    /\ UNCHANGED <<status, progress, requests, pc, res, log, pub, said>>

(* ------------------------------------------------------------ check_abort *)

\* a check_abort() that consumes the token and forgets to raise
CheckAbort_NoRaise(p) ==
    /\ Quiet
    /\ UNCHANGED <<guiVars, allocVars, rampVars>>
    /\ pc[p] \in SetupChecks
    /\ pc' = [pc EXCEPT ![p] =
                CASE pc[p] = "s_chk1" -> "s_post1"
                  [] pc[p] = "s_chk2" -> "s_post2"
                  [] pc[p] = "s_chk3" -> "s_post3"
                  [] pc[p] = "s_chk4" -> "s_post4"]
    /\ IF setup_stop THEN ClearSetupStop ELSE UNCHANGED <<setup_stop, stale, reqStage>>
    /\ UNCHANGED <<status, progress, status_message, requests, res, log, pub, said>>

\* check_abort() at one of the four checkpoints of setup(): a set token is
\* cleared and CavityAbortError raised, which the except clause of setup()
\* catches; otherwise nothing happens
CheckAbort(p) ==
    /\ Quiet
    /\ UNCHANGED <<guiVars, allocVars, rampVars>>
    /\ pc[p] \in SetupChecks
    /\ IF setup_stop
       THEN Except(p, CavityAbortError, "aborted", ChkOf(pc[p]))
       ELSE /\ pc' = [pc EXCEPT ![p] =
                        CASE pc[p] = "s_chk1" -> "s_post1"
                          [] pc[p] = "s_chk2" -> "s_post2"
                          [] pc[p] = "s_chk3" -> "s_post3"
                          [] pc[p] = "s_chk4" -> "s_post4"]
            /\ UNCHANGED <<points, requests, hist>>

(* ------------------------------------------------------------------ setup *)

\* a rejection placed after the reset of progress
SetupReject_Resets(p) ==
    /\ Quiet
    /\ UNCHANGED <<guiVars, allocVars, rampVars>>
    /\ pc[p] = "s_call"
    /\ status = STATUS_RUNNING_VALUE
    /\ Step(p, <<0>>, "script already running", NoAct, "done")
    /\ res' = [res EXCEPT ![p] = [NoRes EXCEPT !.outcome = "rejected"]]
    /\ UNCHANGED <<status, setup_stop, stale, reqStage, requests>>

\* "if self.script_is_running: ... return"
SetupReject(p) ==
    /\ Quiet
    /\ UNCHANGED <<guiVars, allocVars, rampVars>>
    /\ pc[p] = "s_call"
    /\ status = STATUS_RUNNING_VALUE
    /\ Step(p, <<>>, "script already running", NoAct, "done")
    /\ res' = [res EXCEPT ![p] = [NoRes EXCEPT !.outcome = "rejected"]]
    /\ UNCHANGED <<status, setup_stop, stale, reqStage, requests>>

\* status := RUNNING, progress := 0, and the amplifier is being turned on
SetupEnter(p) ==
    /\ status' = STATUS_RUNNING_VALUE
    /\ Step(p, <<0>>, "Turning on SSA if not on already", "ssa.turn_on", "s_ssa_on")
    /\ stale' = setup_stop
    /\ reqStage' = [reqStage EXCEPT ![p] = 0]
    /\ UNCHANGED <<setup_stop, res, requests>>

\* setup() up to its first device-layer call, the check and the write of
\* status taken together
SetupStart(p) ==
    /\ Quiet
    /\ UNCHANGED <<guiVars, allocVars, rampVars>>
    /\ pc[p] = "s_call"
    /\ status # STATUS_RUNNING_VALUE
    /\ SetupEnter(p)

SsaOnReturn(p) ==
    /\ Quiet
    /\ UNCHANGED <<guiVars, allocVars, rampVars>>
    /\ pc[p] = "s_ssa_on"
    /\ Go(p, <<10>>, "Resetting interlocks", "reset_interlocks", "s_reset")

\* the calibration stage entered whatever its enable flag says
ResetReturn_Always(p) ==
    /\ Quiet
    /\ UNCHANGED <<guiVars, allocVars, rampVars>>
    /\ pc[p] = "s_reset"
    /\ Go(p, <<15>>, "Running SSA Calibration", "turnOff", "s_cal_off")

ResetReturn(p) ==
    /\ Quiet
    /\ UNCHANGED <<guiVars, allocVars, rampVars>>
    /\ pc[p] = "s_reset"
    /\ IF ssa_cal_requested
       THEN Go(p, <<15>>, "Running SSA Calibration", "turnOff", "s_cal_off")
       ELSE Go(p, <<15, 25>>, NoMsg, NoAct, "s_chk1")

\* the calibration stage publishing 30 where the code publishes 20
CalOffReturn_30(p) ==
    /\ Quiet
    /\ UNCHANGED <<guiVars, allocVars, rampVars>>
    /\ pc[p] = "s_cal_off"
    /\ Go(p, <<30>>, NoMsg, "ssa.calibrate", "s_cal")

CalOffReturn(p) ==
    /\ Quiet
    /\ UNCHANGED <<guiVars, allocVars, rampVars>>
    /\ pc[p] = "s_cal_off"
    /\ Go(p, <<20>>, NoMsg, "ssa.calibrate", "s_cal")

CalReturn(p) ==
    /\ Quiet
    /\ UNCHANGED <<guiVars, allocVars, rampVars>>
    /\ pc[p] = "s_cal"
    /\ Go(p, <<25>>, "SSA Calibrated", NoAct, "s_chk1")

AfterCheck1(p) ==
    /\ Quiet
    /\ UNCHANGED <<guiVars, allocVars, rampVars>>
    /\ pc[p] = "s_post1"
    /\ IF auto_tune_requested
       THEN Go(p, <<>>, "Tuning to Resonance", "move_to_resonance", "s_tune")
       ELSE Go(p, <<50>>, NoMsg, NoAct, "s_chk2")

TuneReturn(p) ==
    /\ Quiet
    /\ UNCHANGED <<guiVars, allocVars, rampVars>>
    /\ pc[p] = "s_tune"
    /\ Go(p, <<50>>, "Tuned to Resonance", NoAct, "s_chk2")

\* progress 75 published before the characterization instead of after it
AfterCheck2_Early(p) ==
    /\ Quiet
    /\ UNCHANGED <<guiVars, allocVars, rampVars>>
    /\ pc[p] = "s_post2"
    /\ IF cav_char_requested
       THEN Go(p, <<75>>, "Running Cavity Characterization", "characterize", "s_char")
       ELSE Go(p, <<75>>, NoMsg, NoAct, "s_chk3")

AfterCheck2(p) ==
    /\ Quiet
    /\ UNCHANGED <<guiVars, allocVars, rampVars>>
    /\ pc[p] = "s_post2"
    /\ IF cav_char_requested
       THEN Go(p, <<>>, "Running Cavity Characterization", "characterize", "s_char")
       ELSE Go(p, <<75>>, NoMsg, NoAct, "s_chk3")

CharReturn(p) ==
    /\ Quiet
    /\ UNCHANGED <<guiVars, allocVars, rampVars>>
    /\ pc[p] = "s_char"
    /\ Go(p, <<60>>, NoMsg, "calc_probe_q.put", "s_probeq")

ProbeQReturn(p) ==
    /\ Quiet
    /\ UNCHANGED <<guiVars, allocVars, rampVars>>
    /\ pc[p] = "s_probeq"
    /\ Go(p, <<70, 75>>, "Characterized", NoAct, "s_chk3")

AfterCheck3(p) ==
    /\ Quiet
    /\ UNCHANGED <<guiVars, allocVars, rampVars>>
    /\ pc[p] = "s_post3"
    /\ IF rf_ramp_requested
       THEN Go(p, <<>>, "Ramping to acon", "piezo.enable_feedback", "s_piezo")
       ELSE Finish(p, NoMsg)

PiezoReturn(p) ==
    /\ Quiet
    /\ UNCHANGED <<guiVars, allocVars, rampVars>>
    /\ pc[p] = "s_piezo"
    /\ Go(p, <<80>>, NoMsg, "turn_on", "s_rf_on")

RfOnReturn(p) ==
    /\ Quiet
    /\ UNCHANGED <<guiVars, allocVars, rampVars>>
    /\ pc[p] = "s_rf_on"
    /\ Go(p, <<85>>, NoMsg, NoAct, "s_chk4")

AfterCheck4(p) ==
    /\ Quiet
    /\ UNCHANGED <<guiVars, allocVars, rampVars>>
    /\ pc[p] = "s_post4"
    /\ Go(p, <<>>, NoMsg, "set_sela_mode", "s_sela")

SelaReturn(p) ==
    /\ Quiet
    /\ UNCHANGED <<guiVars, allocVars, rampVars>>
    /\ pc[p] = "s_sela"
    /\ Go(p, <<>>, NoMsg, "walk_amp", "s_walk")

WalkReturn(p) ==
    /\ Quiet
    /\ UNCHANGED <<guiVars, allocVars, rampVars>>
    /\ pc[p] = "s_walk"
    /\ Go(p, <<90>>, "Centering piezo", "move_to_resonance_sela", "s_center")

\* the amplitude walked a second time after the piezo was centred
CenterReturn_WalkAgain(p) ==
    /\ Quiet
    /\ UNCHANGED <<guiVars, allocVars, rampVars>>
    /\ pc[p] = "s_center"
    /\ Go(p, <<95>>, NoMsg, "walk_amp", "s_selap")

CenterReturn(p) ==
    /\ Quiet
    /\ UNCHANGED <<guiVars, allocVars, rampVars>>
    /\ pc[p] = "s_center"
    /\ Go(p, <<95>>, NoMsg, "set_selap_mode", "s_selap")

SelapReturn(p) ==
    /\ Quiet
    /\ UNCHANGED <<guiVars, allocVars, rampVars>>
    /\ pc[p] = "s_selap"
    /\ Finish(p, "Ramped Up to acon MV")

\* a device-layer call of setup() raises
SetupFault(p, e) ==
    /\ Quiet
    /\ UNCHANGED <<guiVars, allocVars, rampVars>>
    /\ pc[p] \in SetupOps
    /\ Except(p, e, "fault", 0)

(* -------------------------------------------------------------- shut_down *)

ShutDownReject(p) ==
    /\ Quiet
    /\ UNCHANGED <<guiVars, allocVars, rampVars>>
    /\ pc[p] = "o_call"
    /\ status = STATUS_RUNNING_VALUE
    /\ Step(p, <<>>, "script already running", NoAct, "done")
    /\ res' = [res EXCEPT ![p] = [NoRes EXCEPT !.outcome = "rejected"]]
    /\ UNCHANGED <<status, setup_stop, stale, reqStage, requests>>

ShutDownEnter(p) ==
    /\ status' = STATUS_RUNNING_VALUE
    /\ Step(p, <<0>>, "Turning RF off", "turnOff", "o_rf_off")
    /\ stale' = setup_stop
    /\ reqStage' = [reqStage EXCEPT ![p] = 0]
    /\ UNCHANGED <<setup_stop, res, requests>>

ShutDownStart(p) ==
    /\ Quiet
    /\ UNCHANGED <<guiVars, allocVars, rampVars>>
    /\ pc[p] = "o_call"
    /\ status # STATUS_RUNNING_VALUE
    /\ ShutDownEnter(p)

RfOffReturn(p) ==
    /\ Quiet
    /\ UNCHANGED <<guiVars, allocVars, rampVars>>
    /\ pc[p] = "o_rf_off"
    /\ Go(p, <<50>>, "Turning SSA off", "ssa.turn_off", "o_ssa_off")

SsaOffReturn(p) ==
    /\ Quiet
    /\ UNCHANGED <<guiVars, allocVars, rampVars>>
    /\ pc[p] = "o_ssa_off"
    /\ Finish(p, NoMsg)

\* a device-layer call of shut_down() raises: shut_down() has no except
\* clause, the exception leaves it
ShutDownFault(p, e) ==
    /\ Quiet
    /\ UNCHANGED <<guiVars, allocVars, rampVars>>
    /\ pc[p] \in OffOps
    /\ pc' = [pc EXCEPT ![p] = "done"]
    /\ res' = [res EXCEPT ![p] = [outcome |-> "escaped", fault |-> e,
                                  chk |-> 0, stale |-> stale]]
    /\ UNCHANGED <<points, requests, log, pub, said, stale, reqStage>>

(* ---------------------------------------------------------- specification *)

Pipeline(p) ==
    \/ SsaOnReturn(p) \/ ResetReturn(p) \/ CalOffReturn(p) \/ CalReturn(p)
    \/ CheckAbort(p)
    \/ AfterCheck1(p) \/ TuneReturn(p)
    \/ AfterCheck2(p) \/ CharReturn(p) \/ ProbeQReturn(p)
    \/ AfterCheck3(p) \/ PiezoReturn(p) \/ RfOnReturn(p)
    \/ AfterCheck4(p) \/ SelaReturn(p) \/ WalkReturn(p) \/ CenterReturn(p)
    \/ SelapReturn(p)
    \/ RfOffReturn(p) \/ SsaOffReturn(p)
    \/ \E e \in RaisedFaults : SetupFault(p, e)
    \/ \E e \in RaisedFaults : ShutDownFault(p, e)

Next ==
    \/ \E p \in Callers :
          \/ TriggerSetup(p) \/ TriggerShutDown(p) \/ Return(p)
          \/ SetupReject(p) \/ SetupStart(p)
          \/ ShutDownReject(p) \/ ShutDownStart(p)
          \/ Pipeline(p)
    \/ RequestStop
    \/ SetRequests

Spec == Init /\ [][Next]_vars

(***************************************************************************)
(* The same program with the already-running check and the write of        *)
(* RUNNING as the two control-point accesses they are: another caller can  *)
(* run between them.                                                       *)
(***************************************************************************)

\* "if self.script_is_running" found the cavity not running
SetupPass(p) ==
    /\ Quiet
    /\ UNCHANGED <<guiVars, allocVars, rampVars>>
    /\ pc[p] = "s_call"
    /\ status # STATUS_RUNNING_VALUE
    /\ pc' = [pc EXCEPT ![p] = "s_enter"]
    /\ UNCHANGED <<points, requests, hist>>

SetupWrite(p) ==
    /\ Quiet
    /\ UNCHANGED <<guiVars, allocVars, rampVars>>
    /\ pc[p] = "s_enter"
    /\ SetupEnter(p)

ShutDownPass(p) ==
    /\ Quiet
    /\ UNCHANGED <<guiVars, allocVars, rampVars>>
    /\ pc[p] = "o_call"
    /\ status # STATUS_RUNNING_VALUE
    /\ pc' = [pc EXCEPT ![p] = "o_enter"]
    /\ UNCHANGED <<points, requests, hist>>

ShutDownWrite(p) ==
    /\ Quiet
    /\ UNCHANGED <<guiVars, allocVars, rampVars>>
    /\ pc[p] = "o_enter"
    /\ ShutDownEnter(p)

NextRace ==
    \/ \E p \in Callers :
          \/ TriggerSetup(p) \/ TriggerShutDown(p) \/ Return(p)
          \/ SetupReject(p) \/ SetupPass(p) \/ SetupWrite(p)
          \/ ShutDownReject(p) \/ ShutDownPass(p) \/ ShutDownWrite(p)
          \/ Pipeline(p)
    \/ RequestStop

SpecRace == Init /\ [][NextRace]_vars

(***************************************************************************)
(* The program when every device-layer call in progress returns or raises  *)
(* in the end, and every call that has ended returns to its caller.        *)
(***************************************************************************)

Fairness ==
    \A p \in Callers : SF_vars(Pipeline(p)) /\ WF_vars(Return(p))

SpecLive == Init /\ [][Next]_vars /\ Fairness

(***************************************************************************)
(* The same program when a device-layer call of setup() may also raise an  *)
(* exception that the except clause does not name.                         *)
(***************************************************************************)

SetupUndeclared(p, e) ==
    /\ Quiet
    /\ UNCHANGED <<guiVars, allocVars, rampVars>>
    /\ pc[p] \in SetupOps
    /\ Except(p, e, "fault", 0)

NextUndeclared ==
    \/ \E p \in Callers :
          \/ TriggerSetup(p) \/ TriggerShutDown(p) \/ Return(p)
          \/ SetupReject(p) \/ SetupStart(p)
          \/ ShutDownReject(p) \/ ShutDownStart(p)
          \/ Pipeline(p)
          \/ \E e \in UndeclaredFaults : SetupUndeclared(p, e)
    \/ RequestStop
    \/ SetRequests

SpecUndeclared == Init /\ [][NextUndeclared]_vars

(* ----------------------------------------------------------- properties *)

NonDecreasing(q) == \A i \in 1..Len(q) : \A j \in i..Len(q) : q[i] <= q[j]

\* the call of caller p is a setup() that entered RUNNING
IsSetupRun(p) == Len(log[p]) > 0 /\ log[p][1] = "ssa.turn_on"

\* C1: for the cavity, in every reachable state, the status is RUNNING exactly
\* while one setup() or shut_down() sequence is in flight (past its
\* already-running check, not yet finished); when none is in flight the status
\* is READY or ERROR.
C1_RunningIffOneInFlight ==
    /\ (status = STATUS_RUNNING_VALUE)
          <=> (Cardinality({ p \in Callers : InFlight(p) }) = 1)
    /\ (\A p \in Callers : ~InFlight(p))
          => status \in { STATUS_READY_VALUE, STATUS_ERROR_VALUE }

\* C2: a stale abort is never replayed against a later run: a token that was
\* set before a setup run entered RUNNING (and not set again since) is never
\* observed as set by a check_abort checkpoint of that run.
C2_NoStaleAbortObserved ==
    \A p \in Callers : res[p].outcome = "aborted" => ~res[p].stale

\* C3: under any interleaving of start, turn-off and abort requests against
\* the cavity, at most one setup/shutdown pipeline execution is in flight at
\* any time.
C3_AtMostOnePipeline ==
    Cardinality({ p \in Callers : Executing(p) }) <= 1

\* C4: a setup() or shut_down() invoked while the status is RUNNING is
\* rejected: status, progress and the abort token are unchanged, no
\* device-layer call is made, nothing is published but the message
\* "script already running".
C4_RejectedWhileRunning ==
    [][\A p \in Callers :
          (/\ pc[p] \in { "s_call", "o_call" }
           /\ status = STATUS_RUNNING_VALUE
           /\ pc'[p] # pc[p])
          => /\ status' = status
             /\ progress' = progress
             /\ setup_stop' = setup_stop
             /\ log' = log
             /\ pub' = pub
             /\ status_message' = "script already running"
             /\ said'[p] = <<"script already running">>
             /\ pc'[p] = "done"
             /\ res'[p].outcome = "rejected"]_vars

\* a call was rejected while another caller's sequence was in flight
C4_Witness ==
    \E p, q \in Callers :
        /\ pc[p] = "done"
        /\ res[p].outcome = "rejected"
        /\ Executing(q)
        /\ status = STATUS_RUNNING_VALUE

\* C5: within one execution of setup() or shut_down(), however it ends, the
\* published progress values are non-decreasing, and an execution that entered
\* RUNNING published 0 before any other value.
C5_ProgressMonotone ==
    \A p \in Callers :
        /\ NonDecreasing(pub[p])
        /\ (Executing(p) \/ (pc[p] = "done" /\ res[p].outcome # "rejected"))
              => (Len(pub[p]) > 0 /\ pub[p][1] = 0)

\* a setup() run that got as far as the RF ramp and ended on a fault
C5_Witness ==
    \E p \in Callers :
        /\ pc[p] = "done"
        /\ res[p].outcome = "fault"
        /\ Len(pub[p]) >= 8

\* C6: when a device-layer call of setup() raises a declared fault, the run
\* ends with status ERROR, the abort token cleared and the fault's description
\* as status message, and no further device-layer call is made.
C6_FaultEndsInError ==
    [][\A p \in Callers :
          (pc[p] \in SetupOps /\ res'[p].outcome = "fault")
          => /\ status' = STATUS_ERROR_VALUE
             /\ setup_stop' = FALSE
             /\ res'[p].fault \in RaisedFaults
             /\ status_message' = res'[p].fault.text
             /\ log'[p] = log[p]
             /\ progress' = progress
             /\ pc'[p] = "done"]_vars

\* a setup() run ended on a fault raised by its fourth device-layer call or a
\* later one
C6_Witness ==
    \E p \in Callers :
        /\ pc[p] = "done"
        /\ res[p].outcome = "fault"
        /\ IsSetupRun(p)
        /\ Len(log[p]) >= 4
        /\ status = STATUS_ERROR_VALUE

\* C7: at each abort checkpoint of setup(): if the token is set, the
\* checkpoint clears it and the run ends with status ERROR, the operator-abort
\* message, the token clear and no further device-layer call; if the token is
\* not set, the checkpoint changes nothing.
C7_CheckpointAbort ==
    [][\A p \in Callers :
          (pc[p] \in SetupChecks /\ pc'[p] # pc[p])
          => IF setup_stop
             THEN /\ setup_stop' = FALSE
                  /\ status' = STATUS_ERROR_VALUE
                  /\ status_message' = "Abort requested"
                  /\ pc'[p] = "done"
                  /\ res'[p].outcome = "aborted"
                  /\ res'[p].chk = ChkOf(pc[p])
                  /\ log'[p] = log[p]
                  /\ progress' = progress
             ELSE /\ pc'[p] \in SetupPosts
                  /\ UNCHANGED <<points, requests, log, pub, said>>]_vars

\* a run was aborted at the last checkpoint, the one inside the RF ramp
C7_Witness ==
    \E p \in Callers :
        /\ pc[p] = "done"
        /\ res[p].outcome = "aborted"
        /\ res[p].chk = 4
        /\ status = STATUS_ERROR_VALUE
        /\ ~setup_stop

\* C8: a setup() run in which no fault is raised and no abort is observed ends
\* with progress 100 and status READY, whatever the four stage-enable flags
\* are, and 100 is the last progress value it published.
C8_SuccessEndsAt100 ==
    \A p \in Callers :
        (pc[p] = "done" /\ res[p].outcome = "ok" /\ IsSetupRun(p))
        => /\ status = STATUS_READY_VALUE
           /\ progress = 100
           /\ pub[p][Len(pub[p])] = 100

\* a setup() run with all four stages enabled ended successfully
C8_Witness ==
    \E p \in Callers :
        /\ pc[p] = "done"
        /\ res[p].outcome = "ok"
        /\ IsSetupRun(p)
        /\ Len(log[p]) = 13

\* C9: when the target amplitude is zero, a start request executes only the
\* shutdown path (RF off, then amplifier off) and none of the setup stages.
C9_ZeroTargetShutsDown ==
    \A p \in Callers :
        (acon = 0 /\ pc[p] \in SetupOps \cup SetupChecks \cup SetupPosts)
        => \A i \in 1..Len(log[p]) : log[p][i] \in { "turnOff", "ssa.turn_off" }

\* C10: an abort requested while a stage's blocking device operation is in
\* progress is caught by the first checkpoint after the operation returns,
\* which ends the run in ERROR before any action of a later stage starts.
C10_AbortCaughtBeforeLaterStage ==
    \A p \in Callers :
        /\ (pc[p] \in SetupOps /\ reqStage[p] # 0)
              => StageOf(pc[p]) = reqStage[p]
        /\ (pc[p] = "done" /\ reqStage[p] # 0) => res[p].outcome # "ok"

(***************************************************************************)
(* The setup GUI: the abort buttons of a cavity, a cryomodule and a linac, *)
(* and the SetupWorker threads they act on.  The GUI thread runs one       *)
(* handler at a time; a group handler sleeps after each child, and the     *)
(* workers run while it sleeps.  The SetupWorkers of a cavity are one here. *)
(* SpecGUI takes kill_workers() and the worker's except clause as one step *)
(* each; SpecKillRace takes their two assignments apart, as the GUI thread *)
(* and a worker thread execute them, and follows the first cryomodule.     *)
(***************************************************************************)

\* GUICavity.kill_workers(): both tokens, whatever the worker is doing
SetTokens(c) ==
    /\ abort_flag' = [abort_flag EXCEPT ![c] = TRUE]
    /\ tuner_abort_flag' = [tuner_abort_flag EXCEPT ![c] = TRUE]

\* the Abort button of one cavity
KillWorkers(c) ==
    /\ gui.at = "idle"
    /\ SetTokens(c)
    /\ UNCHANGED <<worker, gui, kills, since, launchVars, linacVars, allocVars, rampVars>>

\* the Abort button of a cryomodule: kill_cavity_workers() starts its loop
KillCavityWorkers(k) ==
    /\ gui.at = "idle"
    /\ gui' = [at |-> "cm", cm |-> k, cav |-> 1, did |-> gui.did]
    /\ kills' = [c \in Kids |-> 0]
    /\ UNCHANGED <<abort_flag, tuner_abort_flag, worker, since, launchVars, linacVars, allocVars, rampVars>>

\* the Abort button of the linac: kill_cm_workers() starts its loop
KillCmWorkers ==
    /\ gui.at = "idle"
    /\ gui' = [at |-> "linac", cm |-> 1, cav |-> 1, did |-> gui.did]
    /\ kills' = [c \in Kids |-> 0]
    /\ UNCHANGED <<abort_flag, tuner_abort_flag, worker, since, launchVars, linacVars, allocVars, rampVars>>

\* where a group abort goes after the child at <<gui.cm, gui.cav>>
AfterKid ==
    IF gui.cav < FanOut
    THEN [gui EXCEPT !.cav = @ + 1]
    ELSE IF gui.at \in { "linac", "start_linac" } /\ gui.cm < Len(CryomoduleNames)
         THEN [gui EXCEPT !.cm = @ + 1, !.cav = 1]
         ELSE [at |-> "idle", cm |-> gui.cm, cav |-> 0, did |-> gui.at]

\* one round of the loop of a group abort: kill_workers() on the next child,
\* then sleep(0.5)
KillStep_Twice ==
    /\ gui.at \in { "cm", "linac" }
    /\ SetTokens(<<gui.cm, gui.cav>>)
    /\ kills' = [kills EXCEPT ![<<gui.cm, gui.cav>>] = @ + 1]
    /\ gui' = IF gui.cav = 1 /\ kills[<<gui.cm, gui.cav>>] = 0 THEN gui ELSE AfterKid
    /\ UNCHANGED <<worker, since, launchVars, linacVars, allocVars, rampVars>>

KillStep ==
    /\ gui.at \in { "cm", "linac" }
    /\ SetTokens(<<gui.cm, gui.cav>>)
    /\ kills' = [kills EXCEPT ![<<gui.cm, gui.cav>>] = @ + 1]
    /\ gui' = AfterKid
    /\ UNCHANGED <<worker, since, launchVars, linacVars, allocVars, rampVars>>

\* the Set Up button of one cavity: a SetupWorker is handed to the pool; the
\* tokens are left as they are
LaunchRampWorker(c) ==
    /\ gui.at = "idle"
    /\ worker[c] # "running"
    /\ worker' = [worker EXCEPT ![c] = "running"]
    /\ UNCHANGED <<abort_flag, tuner_abort_flag, gui, kills, since, launchVars, linacVars, allocVars, rampVars>>

\* SetupWorker.run(): a check_abort() finds the cavity's token set and raises,
\* and the except clause clears both tokens
WorkerCheckAbort(c) ==
    /\ worker[c] = "running"
    /\ abort_flag[c]
    /\ abort_flag' = [abort_flag EXCEPT ![c] = FALSE]
    /\ tuner_abort_flag' = [tuner_abort_flag EXCEPT ![c] = FALSE]
    /\ worker' = [worker EXCEPT ![c] = "aborted"]
    /\ since' = [since EXCEPT ![c] = FALSE]
    /\ UNCHANGED <<gui, kills, launchVars, linacVars, allocVars, rampVars>>

\* SetupWorker.run() ends without an exception
WorkerFinish(c) ==
    /\ worker[c] = "running"
    /\ worker' = [worker EXCEPT ![c] = "ready"]
    /\ since' = [since EXCEPT ![c] = FALSE]
    /\ UNCHANGED <<abort_flag, tuner_abort_flag, gui, kills, launchVars, linacVars, allocVars, rampVars>>

NextGUI ==
    \/ \E c \in Kids :
          \/ KillWorkers(c) \/ LaunchRampWorker(c)
          \/ WorkerCheckAbort(c) \/ WorkerFinish(c)
    \/ \E k \in 1..Len(CryomoduleNames) : KillCavityWorkers(k)
    \/ KillCmWorkers
    \/ KillStep

InitGUI == LinacRest /\ GuiRest /\ AllocRest /\ RampRest

SpecGUI == InitGUI /\ [][NextGUI]_vars

\* the cavities SpecKillRace follows
RaceKids == { c \in Kids : c[1] = 1 }

\* kill_workers(), first assignment: the cavity's token
KillWorkersFlag(c) ==
    /\ gui.at = "idle"
    /\ abort_flag' = [abort_flag EXCEPT ![c] = TRUE]
    /\ since' = [since EXCEPT ![c] = TRUE]
    /\ gui' = [at |-> "kill", cm |-> c[1], cav |-> c[2], did |-> gui.did]
    /\ UNCHANGED <<tuner_abort_flag, worker, kills, launchVars, linacVars, allocVars, rampVars>>

\* kill_workers(), second assignment: the tuner's token
KillWorkersTuner ==
    /\ gui.at = "kill"
    /\ tuner_abort_flag' = [tuner_abort_flag EXCEPT ![<<gui.cm, gui.cav>>] = TRUE]
    /\ gui' = [at |-> "idle", cm |-> gui.cm, cav |-> 0, did |-> gui.did]
    /\ UNCHANGED <<abort_flag, worker, kills, since, launchVars, linacVars, allocVars, rampVars>>

\* check_abort() raises; the except clause's first assignment clears the
\* cavity's token
WorkerCatch(c) ==
    /\ worker[c] = "running"
    /\ abort_flag[c]
    /\ abort_flag' = [abort_flag EXCEPT ![c] = FALSE]
    /\ worker' = [worker EXCEPT ![c] = "handling"]
    /\ UNCHANGED <<tuner_abort_flag, gui, kills, since, launchVars, linacVars, allocVars, rampVars>>

\* the except clause's second assignment clears the tuner's token, and the
\* run has ended
WorkerCleared(c) ==
    /\ worker[c] = "handling"
    /\ tuner_abort_flag' = [tuner_abort_flag EXCEPT ![c] = FALSE]
    /\ worker' = [worker EXCEPT ![c] = "aborted"]
    /\ since' = [since EXCEPT ![c] = FALSE]
    /\ UNCHANGED <<abort_flag, gui, kills, launchVars, linacVars, allocVars, rampVars>>

NextKillRace ==
    \/ \E c \in RaceKids :
          \/ KillWorkersFlag(c) \/ LaunchRampWorker(c)
          \/ WorkerCatch(c) \/ WorkerCleared(c) \/ WorkerFinish(c)
    \/ KillWorkersTuner

SpecKillRace == InitGUI /\ [][NextKillRace]_vars

(***************************************************************************)
(* The group launches of the GUI: Set Up and Turn off of a cryomodule, Set *)
(* Up of the linac.  Each hands one worker per child to the thread pool    *)
(* and sleeps; the workers run while the loop goes on.                     *)
(***************************************************************************)

LaunchLoops == { "start_cm", "off_cm", "start_linac" }

\* a group launch enters its loop at the first cavity of cryomodule k
LaunchGroup(kind, k) ==
    /\ gui' = [at |-> kind, cm |-> k, cav |-> 1, did |-> gui.did]
    /\ issued' = <<>>
    /\ UNCHANGED <<abort_flag, tuner_abort_flag, worker, kills, since, off_worker,
                   linacVars, allocVars, rampVars>>

\* the Set Up button of a cryomodule: launch_cavity_workers() starts
LaunchCavityWorkers(k) ==
    /\ gui.at = "idle"
    /\ LaunchGroup("start_cm", k)

\* the Turn off button of a cryomodule: launch_turnoff_workers() starts
LaunchTurnoffWorkers(k) ==
    /\ gui.at = "idle"
    /\ LaunchGroup("off_cm", k)

\* the Set Up button of the linac: launch_cm_workers() starts
LaunchCmWorkers ==
    /\ gui.at = "idle"
    /\ LaunchGroup("start_linac", 1)

\* a loop that hands the next child its worker only once the child before has
\* none running
LaunchStep_Waits ==
    /\ gui.at \in LaunchLoops
    /\ gui.cav > 1 => /\ worker[<<gui.cm, gui.cav - 1>>] # "running"
                      /\ ~off_worker[<<gui.cm, gui.cav - 1>>]
    /\ IF gui.at = "off_cm"
       THEN /\ off_worker' = [off_worker EXCEPT ![<<gui.cm, gui.cav>>] = TRUE]
            /\ UNCHANGED worker
       ELSE /\ worker' = [worker EXCEPT ![<<gui.cm, gui.cav>>] = "running"]
            /\ UNCHANGED off_worker
    /\ issued' = Append(issued, <<gui.cm, gui.cav>>)
    /\ gui' = AfterKid
    /\ UNCHANGED <<abort_flag, tuner_abort_flag, kills, since, linacVars, allocVars, rampVars>>

\* one round of the loop of a group launch: launch_ramp_worker() or
\* launch_off_worker() on the next child, then sleep(0.5)
LaunchStep ==
    /\ gui.at \in LaunchLoops
    /\ IF gui.at = "off_cm"
       THEN /\ off_worker' = [off_worker EXCEPT ![<<gui.cm, gui.cav>>] = TRUE]
            /\ UNCHANGED worker
       ELSE /\ worker' = [worker EXCEPT ![<<gui.cm, gui.cav>>] = "running"]
            /\ UNCHANGED off_worker
    /\ issued' = Append(issued, <<gui.cm, gui.cav>>)
    /\ gui' = AfterKid
    /\ UNCHANGED <<abort_flag, tuner_abort_flag, kills, since, linacVars, allocVars, rampVars>>

\* OffWorker.run() ends
OffWorkerFinish(c) ==
    /\ off_worker[c]
    /\ off_worker' = [off_worker EXCEPT ![c] = FALSE]
    /\ UNCHANGED <<abort_flag, tuner_abort_flag, worker, gui, kills, since, issued,
                   linacVars, allocVars, rampVars>>

NextFanOut ==
    \/ \E k \in 1..Len(CryomoduleNames) :
          LaunchCavityWorkers(k) \/ LaunchTurnoffWorkers(k)
    \/ LaunchCmWorkers
    \/ LaunchStep
    \/ \E c \in Kids : WorkerFinish(c) \/ OffWorkerFinish(c)

SpecFanOut == InitGUI /\ [][NextFanOut]_vars

(***************************************************************************)
(* The rf_ramp block of SetupWorker.run() on one cavity, with the RF state *)
(* it finds and changes.  Each caput(..., wait=True) and each call of the  *)
(* cavity is a blocking step that takes effect when it returns.            *)
(***************************************************************************)

AtRamp(to) == rpc' = to

\* the worker enters the block and starts the write of the setpoint
RampStart ==
    /\ rpc = "idle"
    /\ was' = [on |-> is_on, mode |-> rf_mode, ades |-> ades]
    /\ AtRamp("r_ades")
    /\ UNCHANGED <<is_on, rf_mode, ades, des_amp, linacVars, guiVars, allocVars>>

\* caput(selAmplitudeDesPV, min(5, desAmp)) has returned
AdesReturn ==
    /\ rpc = "r_ades"
    /\ ades' = (IF des_amp < 5 THEN des_amp ELSE 5)
    /\ AtRamp("r_sel")
    /\ UNCHANGED <<is_on, rf_mode, des_amp, was, linacVars, guiVars, allocVars>>

\* caput(rfModeCtrlPV, RF_MODE_SEL) has returned
SelReturn ==
    /\ rpc = "r_sel"
    /\ rf_mode' = "SEL"
    /\ AtRamp("r_piezo")
    /\ UNCHANGED <<is_on, ades, des_amp, was, linacVars, guiVars, allocVars>>

\* caput(piezo.feedback_mode_PV, PIEZO_FEEDBACK_VALUE) has returned
PiezoFeedbackReturn ==
    /\ rpc = "r_piezo"
    /\ AtRamp("r_sela")
    /\ UNCHANGED <<is_on, rf_mode, ades, des_amp, was, linacVars, guiVars, allocVars>>

\* caput(rfModeCtrlPV, RF_MODE_SELA) has returned
SelaModeReturn ==
    /\ rpc = "r_sela"
    /\ rf_mode' = "SELA"
    /\ AtRamp("r_on")
    /\ UNCHANGED <<is_on, ades, des_amp, was, linacVars, guiVars, allocVars>>

\* cavity.turnOn() has returned; check_abort() finds nothing
TurnOnReturn ==
    /\ rpc = "r_on"
    /\ is_on' = TRUE
    /\ AtRamp("r_walk")
    /\ UNCHANGED <<rf_mode, ades, des_amp, was, linacVars, guiVars, allocVars>>

\* walk_amp() has brought the setpoint to desAmp, and the worker ends
WalkAmpReturn ==
    /\ rpc = "r_walk"
    /\ ades' = des_amp
    /\ AtRamp("ended")
    /\ UNCHANGED <<is_on, rf_mode, des_amp, was, linacVars, guiVars, allocVars>>

InitRamp ==
    /\ LinacRest
    /\ GuiRest
    /\ AllocRest
    /\ is_on \in BOOLEAN
    /\ rf_mode \in RfModes
    /\ ades \in Amps
    /\ des_amp \in Amps \ { 0 }
    /\ rpc = "idle"
    /\ was = [on |-> is_on, mode |-> rf_mode, ades |-> ades]

NextRamp ==
    \/ RampStart \/ AdesReturn \/ SelReturn \/ PiezoFeedbackReturn
    \/ SelaModeReturn \/ TurnOnReturn \/ WalkAmpReturn

SpecRamp == InitRamp /\ [][NextRamp]_vars

(***************************************************************************)
(* The amplitude spinboxes of one cryomodule: set_cavity_amps() spreads    *)
(* the value of the cryomodule's spinbox over the 8 cavity spinboxes.      *)
(* Amplitudes are integers, in hundredths of MV; the quotients of the code *)
(* are kept as fractions and rounded where a spinbox takes the value.      *)
(***************************************************************************)

RECURSIVE SumOver(_, _)
\* the sum of f over the set S
SumOver(f, S) ==
    IF S = {} THEN 0
    ELSE LET c == CHOOSE x \in S : TRUE IN f[c] + SumOver(f, S \ { c })

\* num / den rounded to the nearest integer, halves upwards
Round(num, den) == (2 * num + den) \div (2 * den)

\* a spinbox that takes any value
SetValue_NoClamp(c, x) == x

\* QDoubleSpinBox.setValue() on the spinbox of cavity c, whose range is
\* 0 .. amax[c]
SetValue(c, x) ==
    IF x < 0 THEN 0 ELSE IF x > amax[c] THEN amax[c] ELSE x

\* the cavities whose maximum is below the equal share t / 8
cavities_at_amax(t) == { c \in Cavities : NumCavities * amax[c] < t }

\* total_remainder assigned, not accumulated: the last saturated cavity's
\* part alone
total_remainder_Overwritten(t) ==
    IF cavities_at_amax(t) = {} THEN 0
    ELSE LET c == CHOOSE x \in cavities_at_amax(t) :
                      \A y \in cavities_at_amax(t) : y <= x
         IN  t - NumCavities * amax[c]

\* 8 times total_remainder: the sum of t / 8 - amax over cavities_at_amax
total_remainder(t) ==
    SumOver([c \in Cavities |-> t - NumCavities * amax[c]], cavities_at_amax(t))

\* the equal share alone, the remainder forgotten
Share_NoRemainder(t) == Round(t, NumCavities)

\* cav_des_amp + cav_remainder, as a spinbox takes it
Share(t) ==
    LET left == NumCavities - Cardinality(cavities_at_amax(t))
    IN  Round(left * t + total_remainder(t), NumCavities * left)

\* the remainder added to what the spinbox holds
Assigned_OnTop(c, t) ==
    IF c \in cavities_at_amax(t)
    THEN SetValue(c, amax[c])
    ELSE SetValue(c, spin[c] + Share(t) - Round(t, NumCavities))

\* the value the second loop of set_cavity_amps() leaves in cavity c's spinbox
Assigned(c, t) ==
    IF c \in cavities_at_amax(t)
    THEN SetValue(c, amax[c])
    ELSE SetValue(c, Share(t))

\* set_cavity_amps() with the cryomodule's spinbox at t
Distribute(t) ==
    IF SumOver(spin, Cavities) = t
    THEN spin' = spin /\ last' = "skipped"
    ELSE IF cavities_at_amax(t) = Cavities
         THEN spin' = spin /\ last' = "raised"
         ELSE /\ spin' = [c \in Cavities |-> Assigned(c, t)]
              /\ last' = "assigned"

\* update_max_amp() reading w: the range of the cryomodule's spinbox becomes
\* 0 .. w, and the value follows
update_max_amp(w) ==
    /\ cm_max' = w
    /\ cm_spin' = IF cm_spin > w THEN w ELSE cm_spin

\* the operator enters a new value, within the range, in the cryomodule's
\* spinbox
EditTarget(t) ==
    /\ t <= cm_max
    /\ t # cm_spin
    /\ cm_spin' = t
    /\ Distribute(t)
    /\ again' = FALSE
    /\ UNCHANGED <<amax, cm_max, changes, linacVars, guiVars, rampVars>>

\* editingFinished of the cryomodule's spinbox with its value unchanged
set_cavity_amps ==
    /\ Distribute(cm_spin)
    /\ again' = (last # "none")
    /\ UNCHANGED <<amax, cm_spin, cm_max, changes, linacVars, guiVars, rampVars>>

\* a cavity's ADES_MAX changes: the range of its spinbox follows, and the
\* value with it; cm_spinbox_range_func() then reads the cryomodule's
\* ADES_MAX again
amax_callback(c, v) ==
    /\ changes < MaxChanges
    /\ changes' = changes + 1
    /\ v # amax[c]
    /\ amax' = [amax EXCEPT ![c] = v]
    /\ spin' = [spin EXCEPT ![c] = IF @ > v THEN v ELSE @]
    /\ \E w \in CmMaxima : update_max_amp(w)
    /\ last' = "none"
    /\ again' = FALSE
    /\ UNCHANGED <<linacVars, guiVars, rampVars>>

InitAlloc ==
    /\ LinacRest
    /\ GuiRest
    /\ RampRest
    /\ amax \in Profiles
    /\ spin = [c \in Cavities |-> IF amax[c] < 500 THEN amax[c] ELSE 500]
    /\ cm_max \in CmMaxima
    /\ cm_spin = (IF cm_max < 4000 THEN cm_max ELSE 4000)
    /\ last = "none"
    /\ again = FALSE
    /\ changes = 0

NextAlloc ==
    \/ \E t \in Targets : EditTarget(t)
    \/ set_cavity_amps
    \/ \E c \in Cavities, v \in Maxima : amax_callback(c, v)

SpecAlloc == InitAlloc /\ [][NextAlloc]_vars

\* the device-layer calls of setup() in the declared order of the stages,
\* those of the disabled stages left out
Expected ==
    <<"ssa.turn_on", "reset_interlocks">>
    \o (IF ssa_cal_requested THEN <<"turnOff", "ssa.calibrate">> ELSE <<>>)
    \o (IF auto_tune_requested THEN <<"move_to_resonance">> ELSE <<>>)
    \o (IF cav_char_requested THEN <<"characterize", "calc_probe_q.put">> ELSE <<>>)
    \o (IF rf_ramp_requested
        THEN <<"piezo.enable_feedback", "turn_on", "set_sela_mode", "walk_amp",
               "move_to_resonance_sela", "set_selap_mode">>
        ELSE <<>>)

IsPrefix(a, b) == Len(a) <= Len(b) /\ \A i \in 1..Len(a) : a[i] = b[i]

Has(q, x) == \E i \in 1..Len(q) : q[i] = x

RampActs ==
    { "piezo.enable_feedback", "turn_on", "set_sela_mode", "walk_amp",
      "move_to_resonance_sela", "set_selap_mode" }

\* C13: within one setup run the stage actions execute strictly in the
\* declared order (amplifier on, interlock reset, calibration, auto-tune,
\* characterization, RF ramp): an action starts only after every action of the
\* earlier enabled stages, and none executes twice.
C13_StagesInOrder ==
    \A p \in Callers :
        IsSetupRun(p)
        => /\ IsPrefix(log[p], Expected)
           /\ (res[p].outcome = "ok" => log[p] = Expected)

\* a run with every stage enabled has started its last device-layer call
C13_Witness ==
    \E p \in Callers : pc[p] = "s_selap" /\ Len(log[p]) = 13

\* C17: when an exception the except clause does not name leaves setup(), the
\* handler does not run: status stays RUNNING, progress stays at the last
\* published value, and from then on every setup() or shut_down() on the
\* cavity is rejected as already running.
C17_UndeclaredFaultSticks ==
    [][/\ \A p \in Callers :
             (pc[p] \in SetupOps /\ res'[p].fault \in UndeclaredFaults)
             => /\ res'[p].outcome = "escaped"
                /\ status = STATUS_RUNNING_VALUE
                /\ UNCHANGED <<status, progress, status_message, setup_stop>>
                /\ progress = pub[p][Len(pub[p])]
       /\ (status = STATUS_RUNNING_VALUE /\ \A q \in Callers : ~InFlight(q))
             => /\ status' = STATUS_RUNNING_VALUE
                /\ progress' = progress
                /\ \A q \in Callers : ~InFlight(q)'
                /\ \A p \in Callers :
                      (pc[p] \in { "s_call", "o_call" } /\ pc'[p] # pc[p])
                      => res'[p].outcome = "rejected"]_vars

\* an undeclared exception has just left a setup() run
C17_Witness ==
    \E p \in Callers :
        /\ pc[p] = "done"
        /\ res[p].outcome = "escaped"
        /\ res[p].fault \in UndeclaredFaults
        /\ IsSetupRun(p)
        /\ status = STATUS_RUNNING_VALUE

\* C18: between the device-layer actions of any two consecutive stages of a
\* setup run there is an abort checkpoint (amplifier on, interlock reset and
\* calibration included): no run goes from an action of one stage straight
\* into an action of another.
C18_CheckpointBetweenStages ==
    [][\A p \in Callers :
          (pc[p] \in SetupOps /\ pc'[p] \in SetupOps)
          => StageOf(pc'[p]) = StageOf(pc[p])]_vars

C20_CharFaultStopsRun ==
    \A p \in Callers :
        (/\ pc[p] = "done"
         /\ res[p].outcome = "fault"
         /\ IsSetupRun(p)
         /\ log[p][Len(log[p])] \in { "characterize", "calc_probe_q.put" })
        => /\ status = STATUS_ERROR_VALUE
           /\ \A a \in RampActs : ~Has(log[p], a)
           /\ progress = pub[p][Len(pub[p])]
           /\ progress = (IF log[p][Len(log[p])] = "characterize" THEN 50 ELSE 60)
           /\ progress # 100

\* the probe-Q write of a run with the RF ramp enabled raised a fault
C20_Witness ==
    \E p \in Callers :
        /\ pc[p] = "done"
        /\ res[p].outcome = "fault"
        /\ log[p][Len(log[p])] = "calc_probe_q.put"
        /\ rf_ramp_requested
        /\ progress = 60

\* the children a completed group abort had to reach
Reached ==
    IF gui.did = "linac" THEN Kids
    ELSE IF gui.did = "cm" THEN { c \in Kids : c[1] = gui.cm }
    ELSE {}

\* C11: a group abort (the Abort button of a cryomodule or of the linac) calls
\* kill_workers() on every child cavity exactly once, whatever its worker is
\* doing (none, running or ended in error): no child is called twice while
\* the loop runs, and when it is over each child of the group was called once
\* and no other cavity was called.
C11_KillAllOncePerChild ==
    /\ [](/\ \A c \in Kids : kills[c] <= 1
          /\ gui.at = "idle"
                => \A c \in Kids : kills[c] = (IF c \in Reached THEN 1 ELSE 0))
    /\ [][\A c \in Kids :
             kills'[c] = kills[c] + 1
             => /\ abort_flag'[c] /\ tuner_abort_flag'[c]
                /\ worker'[c] = worker[c]]_vars

\* a linac abort is over; it reached a cavity with no worker, a cavity whose
\* worker had ended in error and a cavity whose worker was running
C11_Witness ==
    /\ gui.at = "idle"
    /\ gui.did = "linac"
    /\ \A c \in Kids : kills[c] = 1
    /\ \E c \in Kids : worker[c] = "ready" /\ abort_flag[c]
    /\ \E c \in Kids : worker[c] = "aborted" /\ abort_flag[c]
    /\ \E c \in Kids : worker[c] = "running" /\ abort_flag[c]

\* C12: kill_workers() sets the cavity's abort token and the tuner's, and the
\* except clause that ends the aborted run clears both: once a run has ended
\* by abort, and until kill_workers() is called again, neither token is set.
C12_NoTokenLeftAfterAbort ==
    \A c \in Kids :
        (worker[c] = "aborted" /\ ~since[c] /\ gui.at = "idle")
        => (~abort_flag[c] /\ ~tuner_abort_flag[c])

\* the cavities whose maximum is below an eighth of the target
Saturated == { c \in Cavities : 8 * amax[c] < cm_spin }

\* C14: after set_cavity_amps() has spread a target over the 8 cavities, the
\* sum of the cavity amplitudes does not exceed the sum of the cavities'
\* maxima, for every target and every combination of maxima.
C14_SumWithinMaxima ==
    last # "none" => SumOver(spin, Cavities) <= SumOver(amax, Cavities)

\* a target above the sum of the maxima was spread, and the spinbox of a
\* cavity that was not saturated stopped at its maximum
C14_Witness ==
    /\ last = "assigned"
    /\ cm_spin > SumOver(amax, Cavities)
    /\ \E c \in Cavities \ Saturated : spin[c] = amax[c]
    /\ SumOver(spin, Cavities) = SumOver(amax, Cavities)

\* C15 as stated: after set_cavity_amps() with target T, every cavity with
\* m_i < T/8 holds exactly m_i and every other cavity holds exactly
\* T/8 + (sum over the saturated of (T/8 - m_i)) / (8 - number saturated).
C15_ExactShares ==
    last # "none"
    => \A c \in Cavities :
          IF c \in Saturated
          THEN spin[c] = amax[c]
          ELSE 8 * (8 - Cardinality(Saturated)) * spin[c]
                 = (8 - Cardinality(Saturated)) * cm_spin
                   + SumOver([d \in Cavities |-> cm_spin - 8 * amax[d]], Saturated)

\* C15 amended: when set_cavity_amps() assigns (the cavity amplitudes did not
\* already sum to T, and some cavity has m_i >= T/8), every cavity with
\* m_i < T/8 gets m_i and every other cavity gets the share
\* (T - sum of the saturated m_i) / (8 - number saturated), rounded to two
\* decimals and cut at the cavity's own maximum; when every cavity has
\* m_i < T/8 the call fails on the division and assigns nothing.
C15_SharesWithinRange ==
    /\ last = "assigned"
       => /\ Saturated # Cavities
          /\ \A c \in Cavities :
                LET left == 8 - Cardinality(Saturated)
                    due == cm_spin - SumOver(amax, Saturated)
                    share == (2 * due + left) \div (2 * left)
                IN  spin[c] = IF c \in Saturated \/ share > amax[c]
                              THEN amax[c] ELSE share
    /\ last = "raised" => Saturated = Cavities

\* maxima 1,1,1,1,3,5,5,5 and target 20 (no more than the maxima's sum): the
\* share is 4, and the cavity with maximum 3 holds 3
C15_Witness ==
    /\ last = "assigned"
    /\ cm_spin = 2000
    /\ \E f \in [1..3 -> Cavities] :
          /\ Cardinality({ f[i] : i \in 1..3 }) = 3
          /\ amax[f[1]] = 300 /\ spin[f[1]] = 300
          /\ amax[f[2]] = 500 /\ spin[f[2]] = 400
          /\ amax[f[3]] = 100 /\ spin[f[3]] = 100
    /\ SumOver(amax, Cavities) = 2200

\* C16: set_cavity_amps() changes no cavity amplitude when the amplitudes
\* already sum to the target, and a second call with the same target and
\* unchanged maxima leaves every amplitude as the first call left it.
C16_Idempotent ==
    [][last' # "none"
       => /\ SumOver(spin, Cavities) = cm_spin'
                => (spin' = spin /\ last' = "skipped")
          /\ again' => spin' = spin]_vars

\* a second call found amplitudes that did not sum to the target and
\* assigned them again
C16_Witness ==
    /\ again
    /\ last = "assigned"
    /\ SumOver(spin, Cavities) # cm_spin

\* C21: a declared fault raised by the RF-off or the amplifier-off call of
\* shut_down() is caught as in setup(): the cavity ends with status ERROR and
\* the fault's message published, and is not left in RUNNING.
C21_ShutDownFaultEndsInError ==
    [][\A p \in Callers :
          (pc[p] \in OffOps /\ res'[p].fault \in RaisedFaults)
          => /\ status' = STATUS_ERROR_VALUE
             /\ status_message' = res'[p].fault.text]_vars

\* the place of a child in the order cryomodule by cryomodule, cavity by cavity
Place(c) == (c[1] - 1) * FanOut + c[2]

\* the place of the first child of the group launch in progress or last completed
FirstPlace ==
    IF gui.at = "start_linac" \/ (gui.at = "idle" /\ gui.did = "start_linac")
    THEN 1
    ELSE Place(<<gui.cm, 1>>)

\* C22: a group launch (Set Up or Turn off of a cryomodule, Set Up of the
\* linac) hands exactly one worker to each child, in ascending order of
\* cryomodule and cavity number, and does not wait: the next child gets its
\* worker whether or not the workers handed out before have finished.
C22_FanOutOncePerChildInOrder ==
    /\ (gui.at \in LaunchLoops \/ (gui.at = "idle" /\ gui.did \in LaunchLoops))
       => /\ \A i \in 1..Len(issued) : Place(issued[i]) = FirstPlace + i - 1
          /\ Len(issued) =
                IF gui.at \in LaunchLoops
                THEN Place(<<gui.cm, gui.cav>>) - FirstPlace
                ELSE IF gui.did = "start_linac" THEN Cardinality(Kids) ELSE FanOut
    /\ gui.at \in LaunchLoops => ENABLED LaunchStep

\* the linac's launch has reached its second cryomodule while the workers of
\* two cavities of the first are still running
C22_Witness ==
    /\ gui.at = "start_linac"
    /\ gui.cm = 2
    /\ Len(issued) >= 2
    /\ worker[<<1, 1>>] = "running"
    /\ worker[<<1, 2>>] = "running"

\* C23: in the RF ramp, when the cavity was off or not in SELAP mode at the
\* start of the stage the setpoint written before RF is enabled is
\* min(5, target); when it was on in SELAP mode the setpoint is left as it was
\* until the ramp.
C23_SetpointCappedOnlyWhenNeeded ==
    rpc \in { "r_sel", "r_piezo", "r_sela", "r_on", "r_walk" }
    => IF ~was.on \/ was.mode # "SELAP"
       THEN ades = (IF des_amp < 5 THEN des_amp ELSE 5)
       ELSE ades = was.ades

\* C24: if every device-layer call returns or raises a declared fault, every
\* setup() or shut_down() that has written RUNNING leaves RUNNING in the end:
\* the status becomes READY or ERROR.
C24_RunningEnds ==
    (status = STATUS_RUNNING_VALUE) ~> (status # STATUS_RUNNING_VALUE)

C26_NeverDividesByZero ==
    (cm_spin \in 0..cm_max /\ last \in { "assigned", "raised" })
    => NumCavities - Cardinality(cavities_at_amax(cm_spin)) > 0

====
